---- MODULE Spec2Model ----
(***************************************************************************)
(* The merge engine of libcaf (libcaf/merge.py): the ancestry oracle       *)
(* get_common_ancestor, the tree merger merge_trees with its blob text     *)
(* merge, and the merge driver Repository.merge that uses them.            *)
(*                                                                         *)
(* Objects live in a content-addressed store keyed by OID.  An OID is the  *)
(* canonical serialisation of the object, a sequence of string tokens, so  *)
(* equal contents and only equal contents share an OID.  Commits are       *)
(* numbered in creation order; 0 stands for None.                          *)
(***************************************************************************)
EXTENDS Integers, Sequences, FiniteSets, TLC

VARIABLES trees,     \* object store: tree OID -> records of the tree
          blobs,     \* object store: blob OID -> bytes of the blob
          commits,   \* object store: commit number -> commit
          head,      \* the commit the current reference (HEAD) resolves to, 0: none
          last,      \* what the last operation did, when it was a three-way merge
          args,      \* the arguments of a direct merge_trees call
          run        \* what that call did

vars == <<trees, blobs, commits, head, last, args, run>>

-----------------------------------------------------------------------------
(* Tree records, blobs and hashing                                         *)

Names == {"a", "b"}
NameSeq == <<"a", "b">>

BLOB == "blob"
TREE == "tree"

\* dict.get(name) of a missing key
None == [type |-> "none", hash |-> <<>>]

TreeRecord(type, hash) == [type |-> type, hash |-> hash]

NoRecords == [n \in Names |-> None]

Keys(records) == {n \in Names : records[n] # None}

HashBlob(data) == <<BLOB>> \o data

RECURSIVE Serialize(_, _)
Serialize(records, i) ==
    IF i > Len(NameSeq) THEN <<>>
    ELSE LET n == NameSeq[i]
         IN  (IF records[n] = None THEN <<>>
              ELSE <<"(", n, records[n].type>> \o records[n].hash \o <<")">>)
             \o Serialize(records, i + 1)

HashTree(records) == <<TREE>> \o Serialize(records, 1)

\* a byte sequence that is not valid UTF-8
BadBytes == "<invalid-utf8>"
\* a line of merged text carrying the three conflict markers
ConflictLine == "<<<<<<< ======= >>>>>>>"

MarkersIn(line) == IF line = ConflictLine THEN {"<<<<<<<", "=======", ">>>>>>>"} ELSE {}

Contains(text, token) == \E i \in DOMAIN text : token \in MarkersIn(text[i])

IsUtf8(data) == \A i \in DOMAIN data : data[i] # BadBytes

-----------------------------------------------------------------------------
(* The store read by the merger                                            *)

Store(t, b) == [trees |-> t, blobs |-> b]

Put(f, key, value) == [k \in DOMAIN f \cup {key} |-> IF k = key THEN value ELSE f[k]]

\* a store that drops the write, against which the stored merge tree is checked
SaveTreeSkipped(st, records) == st

\* save_tree: the tree is written under its hash
SaveTree(st, records) == Store(Put(st.trees, HashTree(records), records), st.blobs)

\* _read_blob_text: open the blob, read it, decode it as UTF-8
ReadBlobText(st, blob_hash) ==
    IF blob_hash \notin DOMAIN st.blobs
    THEN [ok |-> FALSE, error |-> "FileNotFoundError", text |-> <<>>]
    ELSE IF ~IsUtf8(st.blobs[blob_hash])
    THEN [ok |-> FALSE, error |-> "UnicodeDecodeError", text |-> <<>>]
    ELSE [ok |-> TRUE, error |-> "", text |-> st.blobs[blob_hash]]

\* _save_blob_text: the text is written as a blob under its hash
SaveBlobText(st, text) == Store(st.trees, Put(st.blobs, HashBlob(text), text))

\* three_merge.merge(source, target, base): the external three-way text
\* merge, on texts of as many lines as the base: a line one side changed is
\* taken from that side, a line both sides changed differently comes out as a
\* conflict block.
MergeLine(s, t, b) ==
    IF s = t THEN s ELSE IF s = b THEN t ELSE IF t = b THEN s ELSE ConflictLine

ThreeMerge(source_text, target_text, base_text) ==
    [i \in DOMAIN base_text |-> MergeLine(source_text[i], target_text[i], base_text[i])]

-----------------------------------------------------------------------------
(* merge_trees                                                             *)

\* what the loop body does with one name: lines 96-189 without the calls
Take(rec) == [kind |-> "take", rec |-> rec, reason |-> ""]
Skip == [kind |-> "skip", rec |-> None, reason |-> ""]
Raise(reason) == [kind |-> "raise", rec |-> None, reason |-> reason]
Recurse == [kind |-> "recurse", rec |-> None, reason |-> ""]
AutoMerge == [kind |-> "automerge", rec |-> None, reason |-> ""]

AddedDifferent == "conflict: added different files"
DeletedAndChanged == "conflict: one deleted and one changed"
NotDecodable == "could not decode as UTF-8 for auto-merge file"
ConflictInFile == "conflict in file"
DifferentTypes == "different types of files"

\* lines 101-121: the base has no record of the name
\* variants of the branches below, against which the properties are checked:
\* both sides added a name and the target wins
AddedPrefersTarget(target_record, source_record) ==
    IF target_record # None THEN Take(target_record) ELSE Take(source_record)

Added(target_record, source_record) ==
    IF target_record # None /\ source_record # None
    THEN IF target_record = source_record THEN Take(target_record)
         ELSE Raise(AddedDifferent)
    ELSE IF target_record # None THEN Take(target_record)
    ELSE IF source_record # None THEN Take(source_record)
    ELSE Skip

\* lines 125-137: the base has a record and a side has none
\* variants: the target side decides alone; the changed side survives a
\* deletion; a deletion against a change is reported as a type mismatch
DeletedKeepsTarget(base_record, target_record, source_record) ==
    IF target_record = None THEN Skip ELSE Take(target_record)

DeletedKeepsChanged(base_record, target_record, source_record) ==
    IF target_record = None /\ source_record = None THEN Skip
    ELSE IF base_record \in {target_record, source_record} THEN Skip
    ELSE IF target_record = None THEN Take(source_record)
    ELSE Take(target_record)

DeletedRaisesTypes(base_record, target_record, source_record) ==
    IF target_record = None /\ source_record = None THEN Skip
    ELSE IF base_record \in {target_record, source_record} THEN Skip
    ELSE Raise(DifferentTypes)

Deleted(base_record, target_record, source_record) ==
    IF target_record = None /\ source_record = None THEN Skip
    ELSE IF \/ (target_record = None /\ source_record = base_record)
            \/ (source_record = None /\ target_record = base_record) THEN Skip
    ELSE Raise(DeletedAndChanged)

\* lines 141-189: all three have a record
\* variant: the source side always wins
ChangedTakesSource(base_record, target_record, source_record) ==
    Take(source_record)

Changed(base_record, target_record, source_record) ==
    IF source_record = target_record THEN Take(source_record)
    ELSE IF source_record = base_record THEN Take(target_record)
    ELSE IF target_record = base_record THEN Take(source_record)
    ELSE IF base_record.type = TREE /\ target_record.type = TREE /\ source_record.type = TREE
         THEN Recurse
    ELSE IF base_record.type = BLOB /\ target_record.type = BLOB /\ source_record.type = BLOB
         THEN AutoMerge
    ELSE Raise(DifferentTypes)

\* lines 100-189: the branch taken for a name
Decide(base_record, target_record, source_record) ==
    IF base_record = None THEN Added(target_record, source_record)
    ELSE IF target_record = None \/ source_record = None
         THEN Deleted(base_record, target_record, source_record)
    ELSE Changed(base_record, target_record, source_record)

\* the result of one loop iteration, or of one call
Ok(st, rec) ==
    [status |-> "ok", rec |-> rec, reason |-> "", record |-> "", at |-> <<>>,
     error |-> "", trees |-> st.trees, blobs |-> st.blobs]
Conflict(st, reason, record, error) ==
    [status |-> "conflict", rec |-> None, reason |-> reason, record |-> record,
     at |-> <<>>, error |-> error, trees |-> st.trees, blobs |-> st.blobs]
Fatal(st, error) ==
    [status |-> "fatal", rec |-> None, reason |-> "", record |-> "", at |-> <<>>,
     error |-> error, trees |-> st.trees, blobs |-> st.blobs]

\* lines 170-175: the three reads under one try; any exception becomes a conflict
ReadThree(st, base_record, target_record, source_record) ==
    LET b == ReadBlobText(st, base_record.hash)
        t == ReadBlobText(st, target_record.hash)
        s == ReadBlobText(st, source_record.hash)
    IN  [ok |-> b.ok /\ t.ok /\ s.ok,
         error |-> IF ~b.ok THEN b.error ELSE IF ~t.ok THEN t.error ELSE s.error,
         base_text |-> b.text, target_text |-> t.text, source_text |-> s.text]

\* lines 177-181: the merged text holds the three conflict markers
HasConflictMarkers(merged_text) ==
    /\ Contains(merged_text, "<<<<<<<")
    /\ Contains(merged_text, "=======")
    /\ Contains(merged_text, ">>>>>>>")

\* lines 166-186: both sides changed a blob
MergeBlobs(st, record, base_record, target_record, source_record) ==
    LET read == ReadThree(st, base_record, target_record, source_record)
        merged_text == ThreeMerge(read.source_text, read.target_text, read.base_text)
    IN  IF ~read.ok THEN Conflict(st, NotDecodable, record, read.error)
        ELSE IF HasConflictMarkers(merged_text) THEN Conflict(st, ConflictInFile, record, "")
        ELSE Ok(SaveBlobText(st, merged_text), TreeRecord(BLOB, HashBlob(merged_text)))

\* the hash a successful call returns is carried as a tree record
RECURSIVE MergeTrees(_, _, _, _)
RECURSIVE MergeLoop(_, _, _, _, _, _)

\* lines 96-189 for one name: every result the iteration can have
MergeRecord(st, record, base_records, target_records, source_records) ==
    LET base_record == base_records[record]
        target_record == target_records[record]
        source_record == source_records[record]
        d == Decide(base_record, target_record, source_record)
    IN  CASE d.kind = "take" -> {Ok(st, d.rec)}
          [] d.kind = "skip" -> {Ok(st, None)}
          [] d.kind = "raise" -> {Conflict(st, d.reason, record, "")}
          [] d.kind = "automerge" ->
                {MergeBlobs(st, record, base_record, target_record, source_record)}
          [] d.kind = "recurse" ->
                {IF sub.status = "ok" THEN sub ELSE [sub EXCEPT !.at = <<record>> \o @] :
                    sub \in MergeTrees(st, base_record.hash, target_record.hash,
                                       source_record.hash)}

\* lines 95-193: the loop over the set of names, in any order, then the save
MergeLoop(st, merged_records, records, base_records, target_records, source_records) ==
    IF records = {}
    THEN {Ok(SaveTree(st, merged_records), TreeRecord(TREE, HashTree(merged_records)))}
    ELSE UNION {UNION {
            IF r.status = "ok"
            THEN MergeLoop(Store(r.trees, r.blobs),
                           [merged_records EXCEPT ![record] = r.rec],
                           records \ {record},
                           base_records, target_records, source_records)
            ELSE {r} :
            r \in MergeRecord(st, record, base_records, target_records, source_records)} :
         record \in records}

\* lines 82-93: the three loads
MergeTrees(st, base_h, target_h, source_h) ==
    IF {base_h, target_h, source_h} \subseteq DOMAIN st.trees
    THEN LET base_records == st.trees[base_h]
             target_records == st.trees[target_h]
             source_records == st.trees[source_h]
         IN  MergeLoop(st, NoRecords,
                       Keys(base_records) \cup Keys(target_records) \cup Keys(source_records),
                       base_records, target_records, source_records)
    ELSE {Fatal(st, "FileNotFoundError")}

-----------------------------------------------------------------------------
(* The objects the runs start from                                         *)

T0 == <<"line1", "line2">>
TL == <<"LEFT1", "line2">>
TR == <<"line1", "RIGHT2">>
TX == <<"OTHER1", "line2">>
BIN == <<BadBytes>>

InputBlobs == {T0, TL, TR, TX, BIN}

File(data) == TreeRecord(BLOB, HashBlob(data))
Dir(records) == TreeRecord(TREE, HashTree(records))

OneFile(rec) == [n \in Names |-> IF n = "a" THEN rec ELSE None]

\* the directories one level down
InputSubtrees ==
    {NoRecords, OneFile(File(T0)), OneFile(File(TL)), OneFile(File(TR)), OneFile(File(TX))}

\* the root trees: every kind of record under the name a, a file or nothing under b
RecordsA == {None} \cup {File(d) : d \in InputBlobs} \cup {Dir(t) : t \in InputSubtrees}
RecordsB == {None, File(T0), File(TL)}

InputTrees == {t \in [Names -> RecordsA \cup RecordsB] : t["a"] \in RecordsA /\ t["b"] \in RecordsB}

\* a store holding a set of trees, a set of blobs, each under its hash
TreeStore(ts) == [h \in {HashTree(t) : t \in ts} |-> CHOOSE t \in ts : HashTree(t) = h]
BlobStore(ds) == [h \in {HashBlob(d) : d \in ds} |-> CHOOSE d \in ds : HashBlob(d) = h]

AllTrees == TreeStore(InputTrees \cup InputSubtrees)
AllBlobs == BlobStore(InputBlobs)

Without(f, lost) == [k \in DOMAIN f \ lost |-> f[k]]

\* the objects a corrupted store may have lost: a blob, a subdirectory
Losable == {HashBlob(T0), HashTree(OneFile(File(T0)))}

NotRun == [status |-> "none", hash |-> <<>>, reason |-> "", record |-> "", at |-> <<>>,
           error |-> ""]
NoArgs == [base |-> <<>>, target |-> <<>>, source |-> <<>>, lost |-> {}]
NoLast == [op |-> "none", result |-> "", target |-> 0, head |-> 0, count |-> 0,
           tree |-> <<>>, added |-> {}]

-----------------------------------------------------------------------------
(* merge_trees called on three stored trees                                *)

TreeInit ==
    /\ \E lost \in {{}} \cup {{h} : h \in Losable} :
       \E b, t, s \in InputTrees :
          /\ trees = Without(AllTrees, lost)
          /\ blobs = Without(AllBlobs, lost)
          /\ args = [base |-> HashTree(b), target |-> HashTree(t),
                     source |-> HashTree(s), lost |-> lost]
    /\ run = NotRun
    /\ commits = <<>>
    /\ head = 0
    /\ last = NoLast

CallMergeTrees ==
    /\ run.status = "none"
    /\ \E r \in MergeTrees(Store(trees, blobs), args.base, args.target, args.source) :
          /\ run' = [status |-> r.status, hash |-> r.rec.hash, reason |-> r.reason,
                     record |-> r.record, at |-> r.at, error |-> r.error]
          /\ trees' = r.trees
          /\ blobs' = r.blobs
    /\ UNCHANGED <<commits, head, last, args>>

TreeNext == CallMergeTrees

TreeSpec == TreeInit /\ [][TreeNext]_vars

-----------------------------------------------------------------------------
(* The ancestry oracle                                                     *)

MaxCommits == 4

Commit(tree, parent, second_parent) ==
    [tree |-> tree, parent |-> parent, second_parent |-> second_parent]

\* _collect_ancestors: the commit and what its parent chain reaches
RECURSIVE CollectAncestors(_)
CollectAncestors(commit_hash) ==
    IF commit_hash = 0 THEN {}
    ELSE {commit_hash} \cup CollectAncestors(commits[commit_hash].parent)

\* the walk from hash2: the first commit of its parent chain among ancestors1
RECURSIVE WalkAncestors(_, _)
WalkAncestors(current, ancestors1) ==
    IF current = 0 THEN 0
    ELSE IF current \in ancestors1 THEN current
    ELSE WalkAncestors(commits[current].parent, ancestors1)

\* a variant that does not walk the chain of hash2
CommonAncestorOneSided(hash1, hash2) ==
    IF hash1 = hash2 THEN hash1
    ELSE IF hash2 \in CollectAncestors(hash1) THEN hash2
    ELSE 0

GetCommonAncestor(hash1, hash2) ==
    IF hash1 = hash2 THEN hash1
    ELSE WalkAncestors(hash2, CollectAncestors(hash1))

-----------------------------------------------------------------------------
(* The repository: commits, HEAD, and the merge driver                     *)

DISJOINT == "DISJOINT"
UP_TO_DATE == "UP_TO_DATE"
FAST_FORWARD == "FAST_FORWARD"
THREE_WAY == "THREE_WAY"
MergeConflictError == "MergeConflictError"
StoreError == "StoreError"

\* the merge classifier
Classify(head_commit, target_commit) ==
    LET ancestor == GetCommonAncestor(head_commit, target_commit)
    IN  IF ancestor = 0 THEN DISJOINT
        ELSE IF ancestor = target_commit THEN UP_TO_DATE
        ELSE IF ancestor = head_commit THEN FAST_FORWARD
        ELSE THREE_WAY

\* the snapshots the working directory is committed with: one directory a
\* holding the files a and b
Files(rec_a, rec_b) == [n \in Names |-> IF n = "a" THEN rec_a ELSE rec_b]

SnapshotDirs ==
    {Files(File(T0), File(T0)), Files(File(TL), None),
     Files(File(TR), File(TL)), Files(File(TR), File(T0))}

CommitTrees == {OneFile(Dir(d)) : d \in SnapshotDirs}

\* the snapshot the history starts from
FirstTree == OneFile(Dir(Files(File(T0), File(T0))))

\* the store holds the snapshots, the empty tree, and what they refer to
StoredTrees == CommitTrees \cup SnapshotDirs \cup {NoRecords}
StoredBlobs == {T0, TL, TR}

\* head_commit()
HeadCommit == head

\* the current reference advances to a commit
Advance(commit) == head' = commit

Objects == DOMAIN trees \cup DOMAIN blobs

Init ==
    /\ trees = TreeStore(StoredTrees)
    /\ blobs = BlobStore(StoredBlobs)
    /\ commits = <<>>
    /\ head = 0
    /\ last = NoLast
    /\ args = NoArgs
    /\ run = NotRun

\* commit_working_dir: a commit of the working directory on top of HEAD
CommitWorkingDir ==
    /\ Len(commits) < MaxCommits
    /\ \E t \in (IF commits = <<>> THEN {FirstTree} ELSE CommitTrees) :
          commits' = Append(commits, Commit(HashTree(t), HeadCommit, 0))
    /\ Advance(Len(commits) + 1)
    /\ last' = NoLast
    /\ UNCHANGED <<trees, blobs, args, run>>

\* save_commit: a commit without parent that no reference points to
SaveCommit ==
    /\ Len(commits) < MaxCommits
    /\ commits' = Append(commits, Commit(HashTree(NoRecords), 0, 0))
    /\ last' = NoLast
    /\ UNCHANGED <<trees, blobs, head, args, run>>

\* update_head(HashRef(c)): HEAD is set to a commit
UpdateHead ==
    /\ \E c \in 1..Len(commits) : head' = c
    /\ last' = NoLast
    /\ UNCHANGED <<trees, blobs, commits, args, run>>

Merged(target, result, tree, st) ==
    [op |-> "merge", result |-> result, target |-> target, head |-> HeadCommit,
     count |-> Len(commits), tree |-> tree,
     added |-> (DOMAIN st.trees \cup DOMAIN st.blobs) \ Objects]

\* merge(target) when HEAD resolves to no commit
MergeIntoEmpty ==
    /\ HeadCommit = 0
    /\ \E target \in 1..Len(commits) :
          /\ Advance(target)
          /\ last' = NoLast
    /\ UNCHANGED <<trees, blobs, commits, args, run>>

\* merge(target): disjoint or up to date, nothing changes
MergeNoop ==
    /\ HeadCommit # 0
    /\ \E target \in 1..Len(commits) : Classify(HeadCommit, target) \in {DISJOINT, UP_TO_DATE}
    /\ last' = NoLast
    /\ UNCHANGED <<trees, blobs, commits, head, args, run>>

\* merge(target): the current reference moves forward to the target
MergeFastForward ==
    /\ HeadCommit # 0
    /\ \E target \in 1..Len(commits) :
          /\ Classify(HeadCommit, target) = FAST_FORWARD
          /\ Advance(target)
          /\ last' = NoLast
    /\ UNCHANGED <<trees, blobs, commits, args, run>>

\* merge(target): the trees are merged and a commit with two parents is made
MergeThreeWay ==
    /\ HeadCommit # 0
    /\ Len(commits) < MaxCommits
    /\ \E target \in 1..Len(commits) :
          /\ Classify(HeadCommit, target) = THREE_WAY
          /\ LET base == GetCommonAncestor(HeadCommit, target)
             IN  \E r \in MergeTrees(Store(trees, blobs), commits[base].tree,
                                     commits[HeadCommit].tree, commits[target].tree) :
                    /\ r.status = "ok"
                    /\ trees' = r.trees
                    /\ blobs' = r.blobs
                    /\ commits' = Append(commits, Commit(r.rec.hash, HeadCommit, target))
                    /\ Advance(Len(commits) + 1)
                    /\ last' = Merged(target, THREE_WAY, r.rec.hash,
                                      Store(r.trees, r.blobs))
    /\ UNCHANGED <<args, run>>

\* merge(target): merge_trees raises, the error goes to the caller
MergeFails ==
    /\ HeadCommit # 0
    /\ \E target \in 1..Len(commits) :
          /\ Classify(HeadCommit, target) = THREE_WAY
          /\ LET base == GetCommonAncestor(HeadCommit, target)
             IN  \E r \in MergeTrees(Store(trees, blobs), commits[base].tree,
                                     commits[HeadCommit].tree, commits[target].tree) :
                    /\ r.status # "ok"
                    /\ trees' = r.trees
                    /\ blobs' = r.blobs
                    /\ last' = Merged(target,
                                      IF r.status = "conflict" THEN MergeConflictError
                                      ELSE StoreError,
                                      <<>>, Store(r.trees, r.blobs))
    /\ UNCHANGED <<commits, head, args, run>>

Merge == MergeIntoEmpty \/ MergeNoop \/ MergeFastForward \/ MergeThreeWay \/ MergeFails

Next == CommitWorkingDir \/ SaveCommit \/ UpdateHead \/ Merge

Spec == Init /\ [][Next]_vars

-----------------------------------------------------------------------------
(* The decision table of the tree merger, as the specification states it   *)

\* the row of the table a name falls in: b, l, r are its records, or None
TableRow(b, l, r) ==
    IF b = None
    THEN IF l = None THEN "take r"
         ELSE IF r = None THEN "take l"
         ELSE IF l = r THEN "take l"
         ELSE "added-differently"
    ELSE IF l = None /\ r = None THEN "drop"
    ELSE IF l = None THEN (IF r = b THEN "drop" ELSE "delete-vs-modify")
    ELSE IF r = None THEN (IF l = b THEN "drop" ELSE "modify-vs-delete")
    ELSE IF l = r THEN "take l"
    ELSE IF l = b THEN "take r"
    ELSE IF r = b THEN "take l"
    ELSE IF b.type = TREE /\ l.type = TREE /\ r.type = TREE THEN "recurse"
    ELSE IF b.type = BLOB /\ l.type = BLOB /\ r.type = BLOB THEN "delegate"
    ELSE "type-mismatch"

ConflictRows == {"added-differently", "delete-vs-modify", "modify-vs-delete", "type-mismatch"}

\* the blob text merger of the specification: "not-text", "overlap", or merged
TableBlob(b, l, r) ==
    LET bd == blobs[b.hash]
        ld == blobs[l.hash]
        rd == blobs[r.hash]
        merged == [i \in DOMAIN bd |->
                      IF ld[i] = rd[i] THEN ld[i]
                      ELSE IF ld[i] = bd[i] THEN rd[i]
                      ELSE IF rd[i] = bd[i] THEN ld[i]
                      ELSE ConflictLine]
    IN  IF ~(IsUtf8(bd) /\ IsUtf8(ld) /\ IsUtf8(rd))
        THEN [conflict |-> TRUE, tag |-> "not-text", rec |-> None]
        ELSE IF \E i \in DOMAIN merged : merged[i] = ConflictLine
        THEN [conflict |-> TRUE, tag |-> "overlap", rec |-> None]
        ELSE [conflict |-> FALSE, tag |-> "", rec |-> File(merged)]

\* the tree the table prescribes for three trees, and whether a name conflicts
RECURSIVE TableTree(_, _, _)
TableEntry(b, l, r) ==
    LET row == TableRow(b, l, r)
    IN  CASE row \in ConflictRows -> [conflict |-> TRUE, rec |-> None]
          [] row = "take l" -> [conflict |-> FALSE, rec |-> l]
          [] row = "take r" -> [conflict |-> FALSE, rec |-> r]
          [] row = "drop" -> [conflict |-> FALSE, rec |-> None]
          [] row = "delegate" ->
                LET m == TableBlob(b, l, r) IN [conflict |-> m.conflict, rec |-> m.rec]
          [] row = "recurse" ->
                LET m == TableTree(trees[b.hash], trees[l.hash], trees[r.hash])
                IN  [conflict |-> m.conflict, rec |-> Dir(m.records)]

TableTree(B, L, R) ==
    [conflict |-> \E n \in Names : TableEntry(B[n], L[n], R[n]).conflict,
     records |-> [n \in Names |-> TableEntry(B[n], L[n], R[n]).rec]]

-----------------------------------------------------------------------------
(* Claims about merge_trees                                                *)

Ran == run.status # "none"
Intact == args.lost = {}
RootsStored == {args.base, args.target, args.source} \cap args.lost = {}

\* C6: a side equal to the base contributes nothing: merge_trees(B, X, B) and
\* merge_trees(B, B, X) succeed and return the OID of X.
C6_UnchangedSideYieldsOther ==
    (Ran /\ RootsStored) =>
        /\ args.source = args.base => (run.status = "ok" /\ run.hash = args.target)
        /\ args.target = args.base => (run.status = "ok" /\ run.hash = args.source)

C6_Witness ==
    /\ Ran /\ RootsStored
    /\ args.source = args.base
    /\ AllTrees[args.base]["a"].type = BLOB
    /\ AllTrees[args.target]["a"].type = TREE
    /\ AllTrees[args.base]["b"] # None
    /\ AllTrees[args.target]["b"] = None
    /\ run.hash = args.target

\* C7: merge_trees(B, L, R) raises a conflict exactly when merge_trees(B, R, L)
\* does, and when they succeed they return the same OID.
C7_OrderIndependent ==
    (Ran /\ Intact) =>
        \A r \in MergeTrees(Store(AllTrees, AllBlobs), args.base, args.source, args.target) :
            /\ r.status = run.status
            /\ run.status = "ok" => r.rec.hash = run.hash

C7_Witness ==
    /\ Ran /\ Intact
    /\ run.status = "ok"
    /\ args.target # args.source
    /\ args.target # args.base
    /\ args.source # args.base
    /\ run.hash \notin {args.base, args.target, args.source}
    /\ AllTrees[args.base]["a"].type = TREE
    /\ trees[run.hash]["a"].type = TREE
    /\ trees[trees[run.hash]["a"].hash]["a"] = File(<<"LEFT1", "RIGHT2">>)

\* C9: the merged tree is the one the decision table prescribes, the call raises
\* a conflict exactly when a name falls in a conflict row, and no name outside
\* the union of the three trees' names appears.
C9_DecisionTable ==
    (Ran /\ Intact) =>
        LET B == AllTrees[args.base]
            L == AllTrees[args.target]
            R == AllTrees[args.source]
            table == TableTree(B, L, R)
        IN  /\ run.status \in {"ok", "conflict"}
            /\ run.status = "conflict" <=> table.conflict
            /\ run.status = "ok" =>
                  /\ run.hash = HashTree(table.records)
                  /\ trees[run.hash] = table.records
                  /\ Keys(trees[run.hash]) \subseteq Keys(B) \cup Keys(L) \cup Keys(R)

C9_Witness ==
    /\ Ran /\ Intact
    /\ run.status = "ok"
    /\ TableRow(AllTrees[args.base]["a"], AllTrees[args.target]["a"],
                AllTrees[args.source]["a"]) = "recurse"
    /\ TableRow(AllTrees[args.base]["b"], AllTrees[args.target]["b"],
                AllTrees[args.source]["b"]) = "drop"
    /\ AllTrees[args.base]["b"] # None
    /\ Keys(trees[run.hash]) = {"a"}

\* the records of the directory reached from a root tree along a path of names
RECURSIVE RecordsAt(_, _)
RecordsAt(h, path) ==
    IF path = <<>> THEN trees[h] ELSE RecordsAt(trees[h][Head(path)].hash, Tail(path))

\* the path a conflict message names: the message interpolates one name
MessagePath(r) == <<r.record>>

\* the reason tag of the specification each message of the code stands for
TagOf(reason) ==
    CASE reason = AddedDifferent -> {"added-differently"}
      [] reason = DeletedAndChanged -> {"delete-vs-modify", "modify-vs-delete"}
      [] reason = DifferentTypes -> {"type-mismatch"}
      [] reason = NotDecodable -> {"not-text"}
      [] reason = ConflictInFile -> {"overlap"}
      [] OTHER -> {}

\* the tag the decision table gives the entry a conflict was raised on; a blob
\* that cannot be read at all is reported like one that does not decode
RowTag(b, l, r) ==
    LET row == TableRow(b, l, r)
    IN  IF row # "delegate" THEN row
        ELSE IF {b.hash, l.hash, r.hash} \subseteq DOMAIN blobs
        THEN TableBlob(b, l, r).tag
        ELSE "not-text"

\* C8 as stated: a conflict names the full path from the root of the merge.
C8_FullPathReported ==
    run.status = "conflict" => MessagePath(run) = run.at \o <<run.record>>

\* C8 amended: a conflict names the entry by its name in the directory where it
\* was detected, without the enclosing directories, and carries the reason of
\* the decision-table row that entry falls in.
C8_EntryNameReported ==
    run.status = "conflict" =>
        LET b == RecordsAt(args.base, run.at)[run.record]
            l == RecordsAt(args.target, run.at)[run.record]
            r == RecordsAt(args.source, run.at)[run.record]
        IN  /\ MessagePath(run) = <<run.record>>
            /\ run.record \in Names
            /\ RowTag(b, l, r) \in TagOf(run.reason)

C8_Witness ==
    /\ run.status = "conflict"
    /\ run.at = <<"a">>
    /\ run.record = "a"
    /\ run.reason = DeletedAndChanged
    /\ trees[args.base]["b"] # None

\* C10 as stated: a missing object is a fatal store error and never a merge
\* conflict; a blob that does not decode is a merge conflict and never fatal.
C10_ErrorKindsApart ==
    /\ run.error = "FileNotFoundError" => run.status = "fatal"
    /\ run.error = "UnicodeDecodeError" =>
          (run.status = "conflict" /\ run.reason = NotDecodable)

-----------------------------------------------------------------------------
(* Claims about the ancestry oracle and the merge driver                   *)

Stored == 1..Len(commits)

\* the commits reachable from a commit along parent links, both parents of a
\* merge commit included
RECURSIVE Ancestors(_)
Ancestors(c) ==
    IF c = 0 THEN {}
    ELSE {c} \cup Ancestors(commits[c].parent) \cup Ancestors(commits[c].second_parent)

\* the objects a tree reaches
RECURSIVE TreeObjects(_)
TreeObjects(h) ==
    {h} \cup UNION {IF trees[h][n].type = TREE THEN TreeObjects(trees[h][n].hash)
                    ELSE IF trees[h][n].type = BLOB THEN {trees[h][n].hash}
                    ELSE {} : n \in Names}

Reachable == UNION {TreeObjects(commits[c].tree) : c \in Stored}

\* the three trees of the last three-way merge, and what the table says of them
LastBase == GetCommonAncestor(last.head, last.target)
LastTable ==
    TableTree(trees[commits[LastBase].tree], trees[commits[last.head].tree],
              trees[commits[last.target].tree])

C3_UpToDateIffAncestor ==
    \A t \in Stored :
        head # 0 => (Classify(head, t) = UP_TO_DATE <=> t \in Ancestors(head))

\* C4 as stated: the classifier answers fast-forward exactly when HEAD is a
\* strict ancestor of the target.
C4_FastForwardIffStrictAncestor ==
    \A t \in Stored :
        head # 0 => (Classify(head, t) = FAST_FORWARD <=> (head # t /\ head \in Ancestors(t)))

\* C5: get_common_ancestor gives the same answer for (a, b) and (b, a), a
\* commit or None, and gives c for (c, c).
C5_CommonAncestorSymmetric ==
    \A a, b \in Stored :
        /\ GetCommonAncestor(a, b) = GetCommonAncestor(b, a)
        /\ GetCommonAncestor(a, a) = a

C5_Witness ==
    /\ \E a, b \in Stored : GetCommonAncestor(a, b) \notin {0, a, b}
    /\ \E a, b \in Stored : a # b /\ GetCommonAncestor(a, b) = a
    /\ \E c \in Stored : commits[c].second_parent # 0

====
